---- MODULE Spec2Model ----
(***************************************************************************)
(* Model of server/src/sqflint.ts: the SQFLint class.                      *)
(*                                                                         *)
(*   - parse / runLint : the single-slot debounce (top, timeout)           *)
(*   - process         : one analyzer subprocess per run, its stdout       *)
(*                       'data' handler, its 'error' and 'close' handlers  *)
(*   - parsePosition, parseComment : the two pure converters               *)
(*                                                                         *)
(* Text is modelled as a sequence of one-character strings.  The text of   *)
(* an analyzer record is a sequence of atoms (pieces of one JSON line), so *)
(* that a chunk boundary can fall inside a record.                         *)
(***************************************************************************)
EXTENDS Integers, Sequences, FiniteSets, TLC

\* ---------------------------------------------------------------- bounds

\* Number of parse() calls made by the caller.
MaxCalls == 2

\* Number of lines the analyzer prints in one run (specification DecodeSpec).
MaxDecodeLines == 3

\* Number of chunks the output of one run arrives in.
MaxChunks == 2

\* Longest comment string (specification CommentSpec).
MaxCommentLen == 6

\* Largest raw line / column number (specification PosSpec).
MaxCoord == 4

\* ------------------------------------------------------ sequence helpers

RECURSIVE Flatten(_)
Flatten(ss) == IF ss = <<>> THEN <<>> ELSE Head(ss) \o Flatten(Tail(ss))

\* ------------------------------------------------------- JS string model

NL == "\n"
CR == "\r"
SP == " "

\* Characters String.prototype.trim removes.
WhiteSpace == {SP, NL, CR, "\t"}

RECURSIVE TrimLeft(_)
TrimLeft(s) ==
    IF s # <<>> /\ Head(s) \in WhiteSpace THEN TrimLeft(Tail(s)) ELSE s

RECURSIVE TrimRight(_)
TrimRight(s) ==
    IF s # <<>> /\ s[Len(s)] \in WhiteSpace
    THEN TrimRight(SubSeq(s, 1, Len(s) - 1))
    ELSE s

\* String.prototype.trim
Trim(s) == TrimRight(TrimLeft(s))

\* s.indexOf(p) == 0
StartsWith(s, p) == Len(s) >= Len(p) /\ SubSeq(s, 1, Len(p)) = p

\* s.substr(start): from the zero-based index start to the end.
SubstrFrom(s, start) == SubSeq(s, start + 1, Len(s))

\* s.substr(start, length): a length <= 0 yields the empty string, and the
\* result is clipped to the end of s.
Substr(s, start, length) ==
    IF length <= 0 THEN <<>>
    ELSE SubSeq(s, start + 1,
                IF start + length > Len(s) THEN Len(s) ELSE start + length)

RECURSIVE SplitAcc(_, _, _)
SplitAcc(s, sep, cur) ==
    IF s = <<>> THEN <<cur>>
    ELSE IF Head(s) = sep THEN <<cur>> \o SplitAcc(Tail(s), sep, <<>>)
         ELSE SplitAcc(Tail(s), sep, Append(cur, Head(s)))

\* s.split(sep) for a one-character separator: n separators give n+1 parts.
Split(s, sep) == SplitAcc(s, sep, <<>>)

RECURSIVE Join(_, _)
\* parts.join(sep)
Join(parts, sep) ==
    IF parts = <<>> THEN <<>>
    ELSE IF Len(parts) = 1 THEN Head(parts)
         ELSE Head(parts) \o sep \o Join(Tail(parts), sep)

\* s.replace(/(\r\n|\n|\r)/gm, "")
StripEOL(s) == SelectSeq(s, LAMBDA c : c \notin {NL, CR})

\* ------------------------------------------------------------ converters

\* new SQFLint.Position(line, character)
Position(l, c) == [line |-> l, character |-> c]

\* new SQFLint.Range(start, end)
Range(s, e) == [start |-> s, end |-> e]

\* The end column is decremented too.
parsePositionDecEnd(position) ==
    Range(Position(position.line[1] - 1, position.column[1] - 1),
          Position(position.line[2] - 1, position.column[2] - 1))

\* parsePosition: position.line[0] is position.line[1] here (TLA+ sequences
\* are one-based).
parsePosition(position) ==
    Range(Position(position.line[1] - 1, position.column[1] - 1),
          Position(position.line[2] - 1, position.column[2]))

\* One line of a block comment: trimmed, a leading "*" removed, trimmed.
CommentLine(l) ==
    LET cline == Trim(l) IN
    IF StartsWith(cline, <<"*">>) THEN Trim(SubstrFrom(cline, 1)) ELSE cline

\* The block-comment branch of parseComment.
BlockComment(comment) ==
    LET clines == Split(Trim(Substr(comment, 2, Len(comment) - 4)), NL)
        mapped == [i \in 1..Len(clines) |-> CommentLine(clines[i])]
        kept   == SelectSeq(mapped, LAMBDA l : l # <<>>)
    IN  Trim(Join(kept, <<CR, NL>>))

\* parseComment whose line-comment branch does not trim what follows the
\* marker.
parseCommentNoTrim(comment) ==
    IF comment = <<>> THEN comment
    ELSE LET c1 == Trim(comment)
             c2 == IF StartsWith(c1, <<"/", "/">>)
                   THEN SubstrFrom(c1, 2) ELSE c1
         IN  IF StartsWith(c2, <<"/", "*">>) THEN BlockComment(c2) ELSE c2

\* parseComment for a string argument; the empty string is falsy and is
\* returned as it is.
parseComment(comment) ==
    IF comment = <<>> THEN comment
    ELSE LET c1 == Trim(comment)
             c2 == IF StartsWith(c1, <<"/", "/">>)
                   THEN Trim(SubstrFrom(c1, 2)) ELSE c1
         IN  IF StartsWith(c2, <<"/", "*">>) THEN BlockComment(c2) ELSE c2

\* ------------------------------------------------------ analyzer records

\* Values of JavaScript that are not strings, records or numbers here.
Null == [null |-> TRUE]
Undefined == "<undefined>"
UndefinedText == <<"<undefined>">>

\* A raw position as the analyzer prints it.
RawPos(l1, l2, c1, c2) == [line |-> <<l1, l2>>, column |-> <<c1, c2>>]

\* The JSON values the analyzer prints, one per line (RawMessage).
RecE == [type |-> "error", error |-> "bad op",
         line |-> <<3, 3>>, column |-> <<5, 8>>]
\* A second error, with its text in the message field.
RecE2 == [type |-> "error", message |-> "no end",
          line |-> <<4, 4>>, column |-> <<1, 1>>]
RecW == [type |-> "warning", message |-> "unused"]
RecV == [type |-> "variable", variable |-> "_x",
         comment |-> <<"/", "/", SP, "n">>,
         definitions |-> <<RawPos(1, 1, 1, 2)>>, usage |-> <<>>]
\* A variable record whose second definition has no line: parsePosition
\* throws on it (undefined[0]).
RecVB == [type |-> "variable", variable |-> "_y",
          definitions |-> <<RawPos(2, 2, 1, 3), [column |-> <<1, 2>>]>>,
          usage |-> <<>>]
\* A record of a type the decoder does not know.
RecO == [type |-> "info", message |-> "note"]

Records == {RecE, RecE2, RecW, RecV, RecVB, RecO}

\* The text of a record: one JSON line.  The texts of the error and the
\* variable record are in two pieces, the others in one.
TextOf(r) ==
    CASE r = RecE  -> <<"e1", "e2">>
      [] r = RecE2 -> <<"f">>
      [] r = RecW  -> <<"w">>
      [] r = RecV  -> <<"v1", "v2">>
      [] r = RecVB -> <<"b">>
      [] r = RecO  -> <<"o">>

\* The text "null": valid JSON, not an object.
NullText == <<"null">>
\* A line that is not JSON.
Garbage == <<"x">>

\* JSON.parse(line): surrounding white space is allowed; anything that is
\* not the whole text of one value is a SyntaxError.
JSONparse(line) ==
    LET t == Trim(line) IN
    IF \E r \in Records : TextOf(r) = t
    THEN [ok |-> TRUE, value |-> CHOOSE r \in Records : TextOf(r) = t]
    ELSE IF t = NullText THEN [ok |-> TRUE, value |-> Null]
         ELSE [ok |-> FALSE, value |-> Null]

\* ---------------------------------------------------------- the decoder

\* new SQFLint.ParseInfo()
NewParseInfo == [errors |-> <<>>, warnings |-> <<>>, variables |-> <<>>]

\* message.f is truthy: present (and, for a string, not empty).
Has(message, f) == f \in DOMAIN message

\* message.error || message.message
MessageText(message) ==
    IF Has(message, "error") /\ message.error # "" THEN message.error
    ELSE IF Has(message, "message") THEN message.message ELSE Undefined

\* new SQFLint.Error / Warning (message, range)
Message(text, range) == [message |-> text, range |-> range]

\* parsePosition throws on this entry: it has no line or no column array.
PosThrows(p) == ~("line" \in DOMAIN p /\ "column" \in DOMAIN p)

\* for (let i in list) out.push(this.parsePosition(list[i])), up to the
\* first entry that throws.
RECURSIVE MapPositions(_)
MapPositions(list) ==
    IF list = <<>> \/ PosThrows(Head(list)) THEN <<>>
    ELSE <<parsePosition(Head(list))>> \o MapPositions(Tail(list))

ListOf(message, f) == IF Has(message, f) THEN message[f] ELSE <<>>

\* The wrapper built for a "variable" record.
VariableOf(message) ==
    [name        |-> IF Has(message, "variable") THEN message.variable
                     ELSE Undefined,
     comment     |-> IF Has(message, "comment")
                     THEN parseComment(message.comment) ELSE UndefinedText,
     definitions |-> MapPositions(ListOf(message, "definitions")),
     usage       |-> MapPositions(ListOf(message, "usage"))]

\* The variable is pushed before its positions are converted.
DecodeVariableEarlyPush(info, message) ==
    [info EXCEPT !.variables = Append(@, VariableOf(message))]

\* The "variable" branch: a throw while converting positions leaves the
\* try block before variables.push.
DecodeVariable(info, message) ==
    IF \E i \in 1..Len(ListOf(message, "definitions")) :
            PosThrows(message.definitions[i])
       \/ \E j \in 1..Len(ListOf(message, "usage")) :
            PosThrows(message.usage[j])
    THEN info
    ELSE [info EXCEPT !.variables = Append(@, VariableOf(message))]

\* The try block that skips an error or a warning already in the list.
DecodeMessageDedup(info, message) ==
    LET position == IF Has(message, "line") /\ Has(message, "column")
                    THEN parsePosition(message) ELSE Null
        m == Message(MessageText(message), position)
        Add(list) == IF \E i \in 1..Len(list) : list[i] = m THEN list
                     ELSE Append(list, m)
    IN  IF message.type = "error"
        THEN [info EXCEPT !.errors = Add(@)]
        ELSE IF message.type = "warning"
        THEN [info EXCEPT !.warnings = Add(@)]
        ELSE IF message.type = "variable"
        THEN DecodeVariable(info, message)
        ELSE info

\* The body of the try block for a parsed message.
DecodeMessage(info, message) ==
    LET position == IF Has(message, "line") /\ Has(message, "column")
                    THEN parsePosition(message) ELSE Null
    IN  IF message.type = "error"
        THEN [info EXCEPT !.errors =
                  Append(@, Message(MessageText(message), position))]
        ELSE IF message.type = "warning"
        THEN [info EXCEPT !.warnings =
                  Append(@, Message(MessageText(message), position))]
        ELSE IF message.type = "variable"
        THEN DecodeVariable(info, message)
        ELSE info

\* One iteration of the loop over the lines of a chunk: an empty line is
\* skipped, an exception (SyntaxError of JSON.parse, TypeError on null) is
\* caught and logged.
ProcessLine(info, line) ==
    IF Len(StripEOL(line)) = 0 THEN info
    ELSE LET p == JSONparse(line) IN
         IF ~p.ok THEN info
         ELSE IF p.value = Null THEN info
         ELSE DecodeMessage(info, p.value)

RECURSIVE ProcessLines(_, _)
ProcessLines(info, lines) ==
    IF lines = <<>> THEN info
    ELSE ProcessLines(ProcessLine(info, Head(lines)), Tail(lines))

\* The guard of the 'data' handler: !data && ... . data is a Buffer, which
\* is truthy, so the handler never returns early.
DataIgnored(data) == FALSE /\ Len(StripEOL(data)) = 0

\* The 'data' handler applied to one chunk.
Feed(info, data) ==
    IF DataIgnored(data) THEN info
    ELSE ProcessLines(info, Split(data, NL))

\* ------------------------------------------------------------- the state

VARIABLES
    nCalls,     \* number of parse() calls made so far; call k creates task k
    contents,   \* contents[k]: the source text of task k
    top,        \* this.top: 0 (null) or the task waiting to be linted
    timeout,    \* this.timeout: 0 (null) or the handle of the last timer
    timers,     \* the handles of the timers armed in the event loop
    promise,    \* promise[k]: the promise parse() returned for task k
    calls,      \* calls[k]: how often task k's success / reject was invoked
    run,        \* run[k]: the subprocess process() spawned for task k
    crashed,    \* an uncaught TypeError left runLint
    arg,        \* input of parsePosition (specification PosSpec)
    ret,        \* its result
    done        \* whether it was applied

vars == <<nCalls, contents, top, timeout, timers, promise, calls, run,
          crashed, arg, ret, done>>

schedVars == <<nCalls, contents, top, timeout, timers, promise, calls, run,
               crashed>>

Tasks == 1..MaxCalls

\* Source texts the caller submits.
Texts == {"s1", "s2"}

\* Exit codes of the analyzer.
ExitCodes == {0, 1}

\* What the analyzer prints in specification Spec: nothing, or one warning
\* record.
MainOutputs == {<<>>, TextOf(RecW)}

\* The lines the analyzer prints in specification DecodeSpec: one record of
\* every kind (the warning with a Windows line ending), the text null, and
\* a line that is not JSON.
DecodeLines ==
    {TextOf(r) : r \in Records \ {RecW, RecE2}}
        \cup {TextOf(RecW) \o <<CR>>, NullText, Garbage}

RECURSIVE StreamsOf(_, _)
\* The outputs of at most n lines of L, each line ended by \n.
StreamsOf(L, n) ==
    IF n = 0 THEN {<<>>}
    ELSE LET S == StreamsOf(L, n - 1)
         IN  S \cup {s \o l \o <<NL>> : s \in S, l \in L}

PendingPromise == [state |-> "pending", value |-> Null, reason |-> ""]
NoPromise == [state |-> "none", value |-> Null, reason |-> ""]

\* The promise's resolve function: only a pending promise settles.
Resolved(p, v) ==
    IF p.state = "pending"
    THEN [state |-> "resolved", value |-> v, reason |-> ""] ELSE p

\* The promise's reject function.
Rejected(p, why) ==
    IF p.state = "pending"
    THEN [state |-> "rejected", value |-> Null, reason |-> why] ELSE p

\* closedAt: the number of parse calls made when the run's close arrived.
NoRun == [state |-> "none", launched |-> 0, out |-> <<>>, recv |-> <<>>,
          info |-> Null, handlers |-> FALSE, stdin |-> "", ended |-> FALSE,
          killed |-> FALSE, errored |-> FALSE, code |-> 0, closedAt |-> 0]

SchedInit ==
    /\ nCalls = 0
    /\ contents = [k \in Tasks |-> ""]
    /\ top = 0
    /\ timeout = 0
    /\ timers = {}
    /\ promise = [k \in Tasks |-> NoPromise]
    /\ calls = [k \in Tasks |-> [success |-> 0, reject |-> 0]]
    /\ run = [k \in Tasks |-> NoRun]
    /\ crashed = FALSE

PosIdle ==
    /\ arg = RawPos(1, 1, 1, 1)
    /\ ret = Range(Position(0, 0), Position(0, 0))
    /\ done = FALSE

Init == SchedInit /\ PosIdle

\* ----------------------------------------------------------- the actions

\* success(info) of task k is invoked.
CallSuccess(k, info) ==
    /\ promise' = [promise EXCEPT ![k] = Resolved(@, info)]
    /\ calls' = [calls EXCEPT ![k].success = @ + 1]

\* reject(why) of task k is invoked.
CallReject(k, why) ==
    /\ promise' = [promise EXCEPT ![k] = Rejected(@, why)]
    /\ calls' = [calls EXCEPT ![k].reject = @ + 1]

\* parse(contents) that replaces the waiting task without rejecting it.
parseNoReject(c) ==
    /\ nCalls < MaxCalls
    /\ LET k == nCalls + 1 IN
       /\ nCalls' = k
       /\ contents' = [contents EXCEPT ![k] = c]
       /\ promise' = [promise EXCEPT ![k] = PendingPromise]
       /\ UNCHANGED calls
       /\ top' = k
       /\ timeout' = k
       /\ timers' = (IF timeout # 0 THEN timers \ {timeout} ELSE timers)
                        \cup {k}
    /\ UNCHANGED <<run, crashed, arg, ret, done>>

\* parse(contents) that also cancels the runs in flight: it rejects their
\* promises.
parseRejectsRunning(c) ==
    /\ nCalls < MaxCalls
    /\ LET k    == nCalls + 1
           old  == IF timeout # 0 /\ top # 0 THEN top ELSE 0
           hit  == {j \in Tasks : j = old \/ run[j].state = "live"}
       IN
       /\ nCalls' = k
       /\ contents' = [contents EXCEPT ![k] = c]
       /\ promise' = [j \in Tasks |->
                        IF j = k THEN PendingPromise
                        ELSE IF j \in hit THEN Rejected(promise[j], Undefined)
                        ELSE promise[j]]
       /\ calls' = [j \in Tasks |->
                        IF j \in hit THEN [calls[j] EXCEPT !.reject = @ + 1]
                        ELSE calls[j]]
       /\ top' = k
       /\ timeout' = k
       /\ timers' = (IF timeout # 0 THEN timers \ {timeout} ELSE timers)
                        \cup {k}
    /\ UNCHANGED <<run, crashed, arg, ret, done>>

\* parse(contents) without clearTimeout: the replaced timer stays armed.
parseKeepTimer(c) ==
    /\ nCalls < MaxCalls
    /\ LET k    == nCalls + 1
           old  == IF timeout # 0 /\ top # 0 THEN top ELSE 0
       IN
       /\ nCalls' = k
       /\ contents' = [contents EXCEPT ![k] = c]
       /\ promise' = [j \in Tasks |->
                        IF j = k THEN PendingPromise
                        ELSE IF j = old THEN Rejected(promise[j], Undefined)
                        ELSE promise[j]]
       /\ calls' = [j \in Tasks |->
                        IF j = old THEN [calls[j] EXCEPT !.reject = @ + 1]
                        ELSE calls[j]]
       /\ top' = k
       /\ timeout' = k
       /\ timers' = timers \cup {k}
    /\ UNCHANGED <<run, crashed, arg, ret, done>>

\* parse(contents): clearTimeout and top.reject() when a timer is pending,
\* then the promise executor installs the task and arms the timer.
parse(c) ==
    /\ nCalls < MaxCalls
    /\ LET k    == nCalls + 1
           old  == IF timeout # 0 /\ top # 0 THEN top ELSE 0
       IN
       /\ nCalls' = k
       /\ contents' = [contents EXCEPT ![k] = c]
       /\ promise' = [j \in Tasks |->
                        IF j = k THEN PendingPromise
                        ELSE IF j = old THEN Rejected(promise[j], Undefined)
                        ELSE promise[j]]
       /\ calls' = [j \in Tasks |->
                        IF j = old THEN [calls[j] EXCEPT !.reject = @ + 1]
                        ELSE calls[j]]
       /\ top' = k
       /\ timeout' = k
       /\ timers' = (IF timeout # 0 THEN timers \ {timeout} ELSE timers)
                        \cup {k}
    /\ UNCHANGED <<run, crashed, arg, ret, done>>

\* process whose launch-failure branch does nothing.
processSilentLaunchFailure(k, child, writeOK, o) ==
    IF child
    THEN /\ run' = [run EXCEPT ![k] =
                      [NoRun EXCEPT !.state = "live",
                                    !.launched = run[k].launched + 1,
                                    !.out = o, !.info = NewParseInfo,
                                    !.handlers = TRUE,
                                    !.stdin = IF writeOK THEN contents[k]
                                              ELSE "",
                                    !.ended = writeOK, !.killed = ~writeOK]]
         /\ UNCHANGED <<promise, calls>>
    ELSE /\ run' = [run EXCEPT ![k] =
                      [NoRun EXCEPT !.state = "nolaunch",
                                    !.launched = run[k].launched + 1]]
         /\ UNCHANGED <<promise, calls>>

\* process whose launch-failure branch reports an empty result.
processLaunchFailureResolves(k, child, writeOK, o) ==
    IF child
    THEN /\ run' = [run EXCEPT ![k] =
                      [NoRun EXCEPT !.state = "live",
                                    !.launched = run[k].launched + 1,
                                    !.out = o, !.info = NewParseInfo,
                                    !.handlers = TRUE,
                                    !.stdin = IF writeOK THEN contents[k]
                                              ELSE "",
                                    !.ended = writeOK, !.killed = ~writeOK]]
         /\ UNCHANGED <<promise, calls>>
    ELSE /\ run' = [run EXCEPT ![k] =
                      [NoRun EXCEPT !.state = "nolaunch",
                                    !.launched = run[k].launched + 1]]
         /\ CallSuccess(k, NewParseInfo)

\* process(success, reject, contents) for task k.  child: whether Java.spawn
\* returned a child; writeOK: whether child.stdin.write did not throw;
\* o: what the analyzer is going to print.
process(k, child, writeOK, o) ==
    IF child
    THEN /\ run' = [run EXCEPT ![k] =
                      [state    |-> "live",
                       launched |-> run[k].launched + 1,
                       out      |-> o,
                       recv     |-> <<>>,
                       info     |-> NewParseInfo,
                       handlers |-> TRUE,
                       stdin    |-> IF writeOK THEN contents[k] ELSE "",
                       ended    |-> writeOK,
                       killed   |-> ~writeOK,
                       errored  |-> FALSE,
                       code     |-> 0,
                       closedAt |-> 0]]
         /\ UNCHANGED <<promise, calls>>
    ELSE /\ run' = [run EXCEPT ![k] =
                      [NoRun EXCEPT !.state = "nolaunch",
                                    !.launched = run[k].launched + 1]]
         /\ CallReject(k, "Failed to launch java process.")

\* runLint() without this.top = null.
runLintKeepTop(outputs) ==
    /\ timeout' = 0
    /\ IF top = 0
       THEN /\ crashed' = TRUE
            /\ UNCHANGED <<top, promise, calls, run>>
       ELSE /\ \E child \in BOOLEAN, writeOK \in BOOLEAN, o \in outputs :
                 process(top, child, writeOK, o)
            /\ UNCHANGED <<top, crashed>>

\* runLint() with this.top = null moved before the call of process:
\* this.top.success throws.
runLintClearFirst(outputs) ==
    /\ timeout' = 0
    /\ top' = 0
    /\ crashed' = TRUE
    /\ UNCHANGED <<promise, calls, run>>

\* runLint(): this.top is null only if a timer fires with no task waiting,
\* and then this.top.success throws.
runLint(outputs) ==
    /\ timeout' = 0
    /\ IF top = 0
       THEN /\ crashed' = TRUE
            /\ UNCHANGED <<top, promise, calls, run>>
       ELSE /\ \E child \in BOOLEAN, writeOK \in BOOLEAN, o \in outputs :
                 process(top, child, writeOK, o)
            /\ top' = 0
            /\ UNCHANGED crashed

\* The timer armed by parse fires: setTimeout(() => this.runLint(), 200).
TimerFire(h) ==
    /\ h \in timers
    /\ ~crashed
    /\ timers' = timers \ {h}
    /\ runLint(MainOutputs)
    /\ UNCHANGED <<nCalls, contents, arg, ret, done>>

\* child.stdout 'data': the next n characters of the output arrive.
OnData(k) ==
    /\ run[k].state = "live"
    /\ run[k].handlers
    /\ Len(run[k].recv) < MaxChunks
    /\ \E n \in 1..Len(run[k].out) :
         LET data == SubSeq(run[k].out, 1, n) IN
         run' = [run EXCEPT
                   ![k].info = Feed(@, data),
                   ![k].recv = Append(@, data),
                   ![k].out  = SubSeq(@, n + 1, Len(@))]
    /\ UNCHANGED <<nCalls, contents, top, timeout, timers, promise, calls,
                   crashed, arg, ret, done>>

\* child 'error'
OnError(k) ==
    /\ run[k].state = "live"
    /\ run[k].handlers
    /\ ~run[k].errored
    /\ run' = [run EXCEPT ![k].errored = TRUE]
    /\ CallReject(k, "error")
    /\ UNCHANGED <<nCalls, contents, top, timeout, timers, crashed,
                   arg, ret, done>>

\* child 'close' that treats a non-zero exit code as a failure.
OnCloseFatal(k, code) ==
    /\ run[k].state = "live"
    /\ run[k].handlers
    /\ run' = [run EXCEPT ![k].state = "closed", ![k].code = code,
                          ![k].out = <<>>, ![k].closedAt = nCalls]
    /\ IF code # 0 THEN CallReject(k, "exit") ELSE CallSuccess(k, run[k].info)
    /\ UNCHANGED <<nCalls, contents, top, timeout, timers, crashed,
                   arg, ret, done>>

\* child 'close' that reports to the task submitted last.
OnCloseToLatest(k, code) ==
    /\ run[k].state = "live"
    /\ run[k].handlers
    /\ run' = [run EXCEPT ![k].state = "closed", ![k].code = code,
                          ![k].out = <<>>, ![k].closedAt = nCalls]
    /\ CallSuccess(nCalls, run[k].info)
    /\ UNCHANGED <<nCalls, contents, top, timeout, timers, crashed,
                   arg, ret, done>>

\* child 'close': whatever the exit code, success(info).  Output that has
\* not arrived by now never arrives.
OnClose(k, code) ==
    /\ run[k].state = "live"
    /\ run[k].handlers
    /\ run' = [run EXCEPT ![k].state = "closed", ![k].code = code,
                          ![k].out = <<>>, ![k].closedAt = nCalls]
    /\ CallSuccess(k, run[k].info)
    /\ UNCHANGED <<nCalls, contents, top, timeout, timers, crashed,
                   arg, ret, done>>

Next ==
    \/ \E c \in Texts : parse(c)
    \/ \E h \in Tasks : TimerFire(h)
    \/ \E k \in Tasks : OnData(k)
    \/ \E k \in Tasks : OnError(k)
    \/ \E k \in Tasks, code \in ExitCodes : OnClose(k, code)

Spec == Init /\ [][Next]_vars

\* A spawned subprocess that has emitted neither 'error' nor 'close' yet
\* emits one of them.
Terminal(k) ==
    /\ ~run[k].errored
    /\ (OnError(k) \/ \E code \in ExitCodes : OnClose(k, code))

\* The event loop fires an armed timer, and a live subprocess ends.
FairSpec ==
    /\ Spec
    /\ WF_vars(\E h \in Tasks : TimerFire(h))
    /\ \A k \in Tasks : WF_vars(Terminal(k))

\* ------------------------------------------- one run, any analyzer output

\* Task 1 was submitted, its timer fired, the analyzer was spawned and the
\* source text written to it; the analyzer is going to print out.
DecodeInit ==
    /\ nCalls = 1
    /\ contents = [k \in Tasks |-> IF k = 1 THEN "s1" ELSE ""]
    /\ top = 0
    /\ timeout = 0
    /\ timers = {}
    /\ promise = [k \in Tasks |-> IF k = 1 THEN PendingPromise ELSE NoPromise]
    /\ calls = [k \in Tasks |-> [success |-> 0, reject |-> 0]]
    /\ \E o \in StreamsOf(DecodeLines, MaxDecodeLines) :
         run = [k \in Tasks |->
                  IF k = 1
                  THEN [NoRun EXCEPT !.state = "live", !.launched = 1,
                                     !.out = o, !.info = NewParseInfo,
                                     !.handlers = TRUE, !.stdin = "s1",
                                     !.ended = TRUE]
                  ELSE NoRun]
    /\ crashed = FALSE
    /\ PosIdle

DecodeNext ==
    \/ OnData(1)
    \/ \E code \in ExitCodes : OnClose(1, code)

DecodeSpec == DecodeInit /\ [][DecodeNext]_vars

\* ------------------------------------- one run, distinguishable records

\* The lines the analyzer prints in specification OrderSpec: two different
\* errors, a warning and a variable.
OrderLines == {TextOf(RecE), TextOf(RecE2), TextOf(RecW), TextOf(RecV)}

\* As DecodeInit, with the output made of OrderLines.
OrderInit ==
    /\ nCalls = 1
    /\ contents = [k \in Tasks |-> IF k = 1 THEN "s1" ELSE ""]
    /\ top = 0
    /\ timeout = 0
    /\ timers = {}
    /\ promise = [k \in Tasks |-> IF k = 1 THEN PendingPromise ELSE NoPromise]
    /\ calls = [k \in Tasks |-> [success |-> 0, reject |-> 0]]
    /\ \E o \in StreamsOf(OrderLines, MaxDecodeLines) :
         run = [k \in Tasks |->
                  IF k = 1
                  THEN [NoRun EXCEPT !.state = "live", !.launched = 1,
                                     !.out = o, !.info = NewParseInfo,
                                     !.handlers = TRUE, !.stdin = "s1",
                                     !.ended = TRUE]
                  ELSE NoRun]
    /\ crashed = FALSE
    /\ PosIdle

OrderSpec == OrderInit /\ [][DecodeNext]_vars

\* ------------------------------- one run, any output, any subprocess event

\* The run of DecodeSpec with the 'error' event as well.
LifeNext ==
    \/ OnData(1)
    \/ OnError(1)
    \/ \E code \in ExitCodes : OnClose(1, code)

LifeSpec == DecodeInit /\ [][LifeNext]_vars

\* ------------------------------------------------ parsePosition, applied

PosInit ==
    /\ SchedInit
    /\ \E l1 \in 1..MaxCoord, l2 \in 1..MaxCoord,
          c1 \in 1..MaxCoord, c2 \in 1..MaxCoord :
         arg = RawPos(l1, l2, c1, c2)
    /\ ret = Range(Position(0, 0), Position(0, 0))
    /\ done = FALSE

ApplyParsePosition ==
    /\ ~done
    /\ ret' = parsePosition(arg)
    /\ done' = TRUE
    /\ UNCHANGED <<schedVars, arg>>

PosNext == ApplyParsePosition

PosSpec == PosInit /\ [][PosNext]_vars

\* ------------------------------------------------- parseComment, applied

\* Characters of a comment: the marker characters, white space, a letter.
CommentChars == {"/", "*", SP, NL, "n"}

RECURSIVE StringsUpTo(_, _)
\* The strings over alphabet A of length at most n.
StringsUpTo(A, n) ==
    IF n = 0 THEN {<<>>}
    ELSE LET S == StringsUpTo(A, n - 1)
         IN  S \cup {Append(s, c) : s \in S, c \in A}

\* ret holds the results of the applications made so far.
CommentInit ==
    /\ SchedInit
    /\ arg \in StringsUpTo(CommentChars, MaxCommentLen)
    /\ ret = <<>>
    /\ done = FALSE

\* variable.comment = this.parseComment(message.comment)
NormalizeOnce ==
    /\ ~done
    /\ ret' = <<parseComment(arg)>>
    /\ done' = TRUE
    /\ UNCHANGED <<schedVars, arg>>

\* parseComment applied to its own result.
NormalizeAgain ==
    /\ done
    /\ Len(ret) = 1
    /\ ret' = Append(ret, parseComment(ret[1]))
    /\ UNCHANGED <<schedVars, arg, done>>

CommentNext == NormalizeOnce \/ NormalizeAgain

CommentSpec == CommentInit /\ [][CommentNext]_vars

\* ================================================================ claims

\* Task k was replaced while it was waiting: parse called its reject with
\* no argument.
Superseded(k) ==
    promise[k].state = "rejected" /\ promise[k].reason = Undefined

Live == {k \in Tasks : run[k].state = "live"}

\* C1: a parse call that arrives while an earlier task is still waiting
\* rejects that task's promise in the same step and cancels its timer; a
\* superseded task is never handed to a subprocess, and what a subprocess is
\* fed is the text of its own, later, task.
C1_SupersedeRejects ==
    /\ [][(nCalls' = nCalls + 1 /\ top # 0) =>
            /\ promise'[top].state = "rejected"
            /\ calls'[top].reject = calls[top].reject + 1
            /\ timeout \notin timers'
            /\ top' = nCalls']_vars
    /\ [](\A k \in Tasks :
            /\ Superseded(k) =>
                 run[k].launched = 0 /\ run[k].stdin = "" /\ k \notin timers
            /\ run[k].stdin \in {"", contents[k]})

\* C1 witness: task 1 was superseded by task 2, which carries another text
\* and was written to its subprocess.
C1_Witness ==
    /\ Superseded(1)
    /\ contents[1] # contents[2]
    /\ run[2].stdin = contents[2]
    /\ run[2].stdin # ""

\* C2 as stated: at most one subprocess is in flight.
C2_SingleFlight == Cardinality(Live) <= 1

\* C2 amended: a subprocess is spawned only by the timer of the waiting
\* task firing: the step takes that task out of the slot, disarms its
\* timer, spawns once, for that task alone, and leaves every other run as
\* it is.  Lifetimes of runs spawned by different firings may overlap.
C2_SpawnPerFiring ==
    [][(\E k \in Tasks : run'[k].launched # run[k].launched) =>
          /\ top # 0
          /\ timeout \in timers
          /\ timers' = timers \ {timeout}
          /\ top' = 0
          /\ run[top].launched = 0
          /\ run'[top].launched = 1
          /\ \A j \in Tasks \ {top} : run'[j] = run[j]]_vars

\* C2 witness: two subprocesses are in flight at once.
C2_Witness == Cardinality(Live) = 2

\* C3: every task is launched at most once and a superseded one never; once
\* parse calls stop, every task has either been superseded or been handed
\* to process exactly once, and the last one has been handed over.
C3_LatestRunsOnce ==
    /\ [](\A k \in Tasks :
            run[k].launched <= 1 /\ (Superseded(k) => run[k].launched = 0))
    /\ <>[](/\ \A k \in 1..nCalls :
                 run[k].launched = IF Superseded(k) THEN 0 ELSE 1
            /\ nCalls > 0 => run[nCalls].launched = 1)

\* C3 witness: the calls have stopped, the first was superseded and the last
\* one was handed to process once and has finished.
C3_Witness ==
    /\ nCalls = MaxCalls
    /\ Superseded(1)
    /\ run[nCalls].launched = 1 /\ run[nCalls].state = "closed"

\* C4: every promise parse returned settles.
C4_PromiseSettles ==
    \A k \in Tasks :
        (promise[k].state = "pending") ~> (promise[k].state # "pending")

\* C4 witness: every promise has settled, one by being superseded and one
\* by the close that follows a failed write.
C4_Witness ==
    /\ nCalls = MaxCalls
    /\ \A k \in Tasks : promise[k].state \in {"resolved", "rejected"}
    /\ \E k \in Tasks : Superseded(k)
    /\ \E k \in Tasks : run[k].state = "closed" /\ run[k].killed

\* C5 as stated: a failed write to the subprocess's input surfaces as a
\* rejection of the promise.
C5_WriteFailureRejects ==
    \A k \in Tasks :
        (run[k].killed /\ run[k].state = "closed") =>
            (calls[k].reject >= 1 /\ promise[k].state = "rejected")

\* C6: when the subprocess cannot be launched, reject is invoked once with
\* the launch failure, the promise is rejected, and the run has no
\* ParseInfo, no handler, no input written and no output decoded.
C6_LaunchFailure ==
    \A k \in Tasks :
        run[k].state = "nolaunch" =>
            /\ promise[k].state = "rejected"
            /\ promise[k].reason = "Failed to launch java process."
            /\ calls[k] = [success |-> 0, reject |-> 1]
            /\ run[k].info = Null
            /\ ~run[k].handlers
            /\ run[k].stdin = "" /\ ~run[k].ended
            /\ run[k].recv = <<>>

\* C6 witness: a launch failure, while another run decoded a warning.
C6_Witness ==
    \E k \in Tasks, j \in Tasks :
        /\ run[k].state = "nolaunch"
        /\ run[j].state = "closed" /\ Len(run[j].info.warnings) = 1

\* What the decoder is expected to make of the records of this model.
ExpectedE == [message |-> "bad op",
              range |-> [start |-> [line |-> 2, character |-> 4],
                         end   |-> [line |-> 2, character |-> 8]]]
ExpectedW == [message |-> "unused", range |-> Null]
ExpectedV == [name |-> "_x", comment |-> <<"n">>,
              definitions |-> <<[start |-> [line |-> 0, character |-> 0],
                                end   |-> [line |-> 0, character |-> 2]]>>,
              usage |-> <<>>]

\* The lines the decoder saw: each chunk cut at its newlines, in order.
LinesSeen(chunks) ==
    Flatten([i \in 1..Len(chunks) |-> Split(chunks[i], NL)])

\* n copies of e.
Copies(n, e) == [i \in 1..n |-> e]

\* How many of the lines are the text of record r (white space aside).
CountOf(lines, r) ==
    Len(SelectSeq(lines, LAMBDA l : Trim(l) = TextOf(r)))

\* One entry per well-formed record among the lines seen, nothing for any
\* other line.
ExpectedInfo(chunks) ==
    LET ls == LinesSeen(chunks) IN
    [errors    |-> Copies(CountOf(ls, RecE), ExpectedE),
     warnings  |-> Copies(CountOf(ls, RecW), ExpectedW),
     variables |-> Copies(CountOf(ls, RecV), ExpectedV)]

\* C7: a close with a non-zero exit code and no error event resolves the
\* promise, through one call of success and none of reject, with the
\* ParseInfo holding what was decoded from the output that had arrived.
C7_NonZeroExitResolves ==
    \A k \in Tasks :
        (run[k].state = "closed" /\ run[k].code # 0 /\ ~run[k].errored) =>
            /\ promise[k].state = "resolved"
            /\ calls[k] = [success |-> 1, reject |-> 0]
            /\ promise[k].value = run[k].info
            /\ promise[k].value = ExpectedInfo(run[k].recv)

\* C7 witness: a non-zero exit after one warning line.
C7_Witness ==
    \E k \in Tasks :
        /\ run[k].state = "closed" /\ run[k].code # 0 /\ ~run[k].errored
        /\ promise[k].state = "resolved"
        /\ promise[k].value.warnings = <<ExpectedW>>

\* C8: whatever lines have arrived, in whatever chunks, the ParseInfo holds
\* one entry for each well-formed record among them, in order, and nothing
\* for a line that failed to parse or to decode.
C8_LineIsolation == run[1].info = ExpectedInfo(run[1].recv)

\* The lines seen that are not empty.
NonEmptyLines(chunks) == SelectSeq(LinesSeen(chunks), LAMBDA l : l # <<>>)

\* C8 witness: a line that is not JSON between two error records, over more
\* than one chunk; both errors are there.
C8_Witness ==
    /\ NonEmptyLines(run[1].recv) = <<TextOf(RecE), Garbage, TextOf(RecE)>>
    /\ Len(run[1].recv) >= 2
    /\ run[1].info.errors = <<ExpectedE, ExpectedE>>

\* C9 as stated: the ParseInfo of a finished run is what the whole output,
\* taken as one chunk, decodes to.
C9_ChunkingIrrelevant ==
    run[1].state = "closed" =>
        run[1].info = Feed(NewParseInfo, Flatten(run[1].recv))

\* C10: the Range has both lines and the start column decremented and the
\* end column as it is.
C10_ParsePosition ==
    done =>
        ret = [start |-> [line      |-> arg.line[1] - 1,
                          character |-> arg.column[1] - 1],
               end   |-> [line      |-> arg.line[2] - 1,
                          character |-> arg.column[2]]]

\* C10 witness: line [3,4], column [2,4] maps to (2,1)-(3,4).
C10_Witness ==
    /\ done
    /\ arg = RawPos(3, 4, 2, 4)
    /\ ret = [start |-> [line |-> 2, character |-> 1],
              end   |-> [line |-> 3, character |-> 4]]


\* The string begins with a line-comment or a block-comment marker.
BeginsWithMarker(s) ==
    StartsWith(s, <<"/", "/">>) \/ StartsWith(s, <<"/", "*">>)

\* C11 as stated: parseComment applied to its own result returns it
\* unchanged.
C11_Idempotent == Len(ret) = 2 => ret[2] = ret[1]

\* C11 amended: parseComment applied to its own result returns it unchanged
\* whenever that result does not itself begin with a comment marker.
C11_IdempotentOnPlainResults ==
    (Len(ret) = 2 /\ ~BeginsWithMarker(ret[1])) => ret[2] = ret[1]

\* C11 witness: a block comment whose line begins with a continuation
\* marker, normalized twice to the same text.
C11_Witness ==
    /\ arg = <<"/", "*", "*", "n", "*", "/">>
    /\ ret = << <<"n">>, <<"n">> >>


\* Run k's subprocess emits 'close' in this step.
Closes(k) == run[k].state = "live" /\ run'[k].state = "closed"

\* Run k's subprocess emits 'error' in this step.
Errors(k) == ~run[k].errored /\ run'[k].errored /\ run[k].state = "live"

\* C12 as stated: a run that completes after further parse calls delivers
\* its result to the promise of the most recent call.
C12_DeliveredToCurrent ==
    [][\A k \in Tasks :
          (Closes(k) /\ nCalls > k) =>
              calls'[nCalls].success = calls[nCalls].success + 1]_vars

\* C12 amended: a run that completes, whatever parse calls were made since
\* it started, invokes the callbacks of the call that started it: its
\* close settles that call's promise with the run's ParseInfo, its error
\* rejects that call's promise, and no other call's promise or callbacks
\* are touched.
C12_DeliveredToOwn ==
    [][\A k \in Tasks :
          /\ Closes(k) =>
                /\ calls'[k] = [calls[k] EXCEPT !.success = @ + 1]
                /\ promise'[k] = Resolved(promise[k], run[k].info)
                /\ \A j \in Tasks \ {k} :
                      promise'[j] = promise[j] /\ calls'[j] = calls[j]
          /\ Errors(k) =>
                /\ calls'[k] = [calls[k] EXCEPT !.reject = @ + 1]
                /\ promise'[k].state = "rejected"
                /\ \A j \in Tasks \ {k} :
                      promise'[j] = promise[j] /\ calls'[j] = calls[j]]_vars

\* C12 witness: run 1 closed after the second parse call; its own promise
\* is resolved and the second call's promise is still pending.
C12_Witness ==
    /\ run[1].state = "closed" /\ run[1].closedAt = 2
    /\ promise[1].state = "resolved"
    /\ promise[1].value = run[1].info
    /\ promise[2].state = "pending"


\* C13 as stated: a promise is resolved only with the ParseInfo of the run
\* of its own call, whose subprocess was fed exactly that call's text, and
\* the ParseInfo holds only what that subprocess printed.
C13_OwnTextOwnRecords ==
    \A k \in Tasks :
        promise[k].state = "resolved" =>
            /\ run[k].stdin = contents[k]
            /\ promise[k].value = run[k].info
            /\ promise[k].value = ExpectedInfo(run[k].recv)


\* C14: a parse call made while runs are in flight leaves every run as it
\* is (subprocess, ParseInfo, input) and neither settles its promise nor
\* invokes its callbacks; it installs the new task and arms its timer.
C14_ParseLeavesRunAlone ==
    [][(nCalls' = nCalls + 1) =>
          /\ \A k \in Tasks :
                run[k].state # "none" =>
                    /\ run'[k] = run[k]
                    /\ promise'[k] = promise[k]
                    /\ calls'[k] = calls[k]
          /\ top' = nCalls'
          /\ timeout' = nCalls'
          /\ nCalls' \in timers'
          /\ promise'[nCalls'].state = "pending"]_vars

\* C14 witness: the second call arrived while run 1 was in flight; run 1 is
\* live with its promise pending, task 2 waits with its timer armed.
C14_Witness ==
    /\ run[1].state = "live" /\ ~run[1].killed
    /\ promise[1].state = "pending"
    /\ top = 2 /\ timers = {2}


\* The promise of task k has settled.
Settled(k) == promise[k].state \in {"resolved", "rejected"}

\* C15: over the lifetime of a run exactly one of success and reject is
\* invoked, once.
C15_OneCallback ==
    \A k \in Tasks :
        run[k].state \in {"closed", "nolaunch"} =>
            calls[k].success + calls[k].reject = 1

\* What the promise does with the two calls: each of success and reject is
\* invoked at most once per run, a finished run has invoked success (after
\* a close) or reject (launch failure), and a settled promise never
\* changes, so the success that follows a reject has no effect.
PromiseSettlesOnce ==
    /\ [](\A k \in Tasks :
            /\ calls[k].success <= 1 /\ calls[k].reject <= 1
            /\ run[k].state = "closed" =>
                  /\ Settled(k)
                  /\ calls[k].success = 1
                  /\ calls[k].reject = IF run[k].errored THEN 1 ELSE 0
                  /\ promise[k].state =
                        IF run[k].errored THEN "rejected" ELSE "resolved"
            /\ run[k].state = "nolaunch" =>
                  Settled(k) /\ calls[k] = [success |-> 0, reject |-> 1])
    /\ [][\A k \in Tasks : Settled(k) => promise'[k] = promise[k]]_vars

\* Task k waits in the scheduler: its promise is pending and it has not
\* been handed to process.
Waiting(k) == promise[k].state = "pending" /\ run[k].state = "none"

\* C16: between operations at most one task waits and it is the one in the
\* slot, at most one timer is armed, and the timer is armed exactly when the
\* slot is occupied; the armed timer is the one this.timeout names.
C16_SlotAndTimer ==
    /\ Cardinality({k \in Tasks : Waiting(k)}) <= 1
    /\ \A k \in Tasks : Waiting(k) <=> top = k
    /\ Cardinality(timers) <= 1
    /\ (timers # {}) <=> (top # 0)
    /\ timers = (IF timeout = 0 THEN {} ELSE {timeout})
    /\ top # 0 => timeout = top

\* C16 witness: a second parse replaced the waiting task; one task waits
\* with one armed timer, the replaced one is rejected.
C16_Witness ==
    /\ nCalls = 2 /\ top = 2 /\ timers = {2} /\ Waiting(2)
    /\ promise[1].state = "rejected" /\ run[1].state = "none"

IsPrefix(s, t) == Len(s) <= Len(t) /\ SubSeq(t, 1, Len(s)) = s

\* Every list of ParseInfo b extends the same list of ParseInfo a.
Extends(a, b) ==
    /\ IsPrefix(a.errors, b.errors)
    /\ IsPrefix(a.warnings, b.warnings)
    /\ IsPrefix(a.variables, b.variables)

\* C17: the lists of a run's ParseInfo only grow by appending, and once a
\* callback of the run (success or reject) has been invoked the ParseInfo
\* never changes.
C17_FrozenAfterCallback ==
    [][\A k \in Tasks :
         /\ run[k].state = "live" => Extends(run[k].info, run'[k].info)
         /\ (run[k].state # "none" /\ calls[k].success + calls[k].reject > 0)
               => run'[k].info = run[k].info]_vars

\* What does hold: during a run the three lists only grow by appending, and
\* once 'close' has invoked success nothing of the run changes.
AppendOnlyFrozenAfterClose ==
    [][\A k \in Tasks :
         /\ run[k].state = "live" => Extends(run[k].info, run'[k].info)
         /\ run[k].state = "closed" => run'[k] = run[k]]_vars

ExpectedE2 == [message |-> "no end",
               range |-> [start |-> [line |-> 3, character |-> 0],
                          end   |-> [line |-> 3, character |-> 1]]]

\* The records the decoder accepts, and the entry each one stands for.
WellFormed == {RecE, RecE2, RecW, RecV}

EntryOf(r) ==
    CASE r = RecE  -> ExpectedE
      [] r = RecE2 -> ExpectedE2
      [] r = RecW  -> ExpectedW
      [] r = RecV  -> ExpectedV

\* The well-formed records among the lines of the chunks, in arrival order:
\* chunk order, then line order within a chunk.
RecordsSeen(chunks) ==
    LET ls == SelectSeq(LinesSeen(chunks),
                        LAMBDA l : \E r \in WellFormed : TextOf(r) = Trim(l))
    IN  [i \in 1..Len(ls) |->
            CHOOSE r \in WellFormed : TextOf(r) = Trim(ls[i])]

\* One entry for each record of the type, in the order of the records.
EntriesOf(recs, type) ==
    LET s == SelectSeq(recs, LAMBDA r : r.type = type)
    IN  [i \in 1..Len(s) |-> EntryOf(s[i])]

\* C18: each list holds one entry for each well-formed record of its type
\* among the lines that arrived, in arrival order (chunk order, then line
\* order within a chunk); identical records give repeated entries.
C18_ArrivalOrder ==
    LET recs == RecordsSeen(run[1].recv) IN
    /\ run[1].info.errors    = EntriesOf(recs, "error")
    /\ run[1].info.warnings  = EntriesOf(recs, "warning")
    /\ run[1].info.variables = EntriesOf(recs, "variable")

\* C18 witness: the second error, the first error and the second error
\* again arrived over two chunks; the list has the three entries in that
\* order.
C18_Witness ==
    /\ Len(run[1].recv) = 2
    /\ RecordsSeen(run[1].recv) = <<RecE2, RecE, RecE2>>
    /\ run[1].info.errors = <<ExpectedE2, ExpectedE, ExpectedE2>>


\* Position p is not after position q, in line-then-character order.
NotAfter(p, q) ==
    p.line < q.line \/ (p.line = q.line /\ p.character <= q.character)

\* C19 as stated: the Range made from any raw position has its start not
\* after its end.
C19_RangeOrdered == done => NotAfter(ret.start, ret.end)

\* C19 amended: the Range has its start not after its end exactly when the
\* raw position has line[0] < line[1], or line[0] = line[1] and
\* column[0] - 1 <= column[1]; parsePosition neither checks nor reorders.
C19_OrderedIffRawOrdered ==
    done =>
        (NotAfter(ret.start, ret.end) <=>
            \/ arg.line[1] < arg.line[2]
            \/ arg.line[1] = arg.line[2] /\ arg.column[1] - 1 <= arg.column[2])

\* C19 witness: line [2,2], column [3,2] maps to the empty range
\* (1,2)-(1,2).
C19_Witness ==
    /\ done
    /\ arg = RawPos(2, 2, 3, 2)
    /\ ret = Range(Position(1, 2), Position(1, 2))

====
